---- MODULE Spec2Model ----
(***************************************************************************)
(* Model of infra_validation_engine/core/__init__.py: the execution and    *)
(* outcome aggregation of infrastructure tests.                            *)
(*                                                                         *)
(*   InfraTest   one check; InfraTest.execute is the Runner                *)
(*   Executor    a group with a precondition gate and post_process         *)
(*   Stage       a group whose execute() runs the checks inline             *)
(*                                                                         *)
(* Python objects are records; a Python dict (a report) is a function      *)
(* whose DOMAIN is the set of keys present.  The abstract methods run(),   *)
(* fail(), pre_condition() and register_tests() are supplied by concrete   *)
(* subclasses: their outcomes are inputs, drawn with \E.  The source is    *)
(* Python 2 (__metaclass__, ex.message): every Exception has a .message.   *)
(*                                                                         *)
(* Groups share no state, so the driver modelled here constructs one       *)
(* Group, of either flavor, registers at most MaxTests checks in it and    *)
(* executes it once.                                                       *)
(***************************************************************************)
EXTENDS Naturals, Sequences, FiniteSets, TLC

\* Largest number of checks registered in one Group.
MaxTests == 3

\* Largest number of names registered in one collection of the Pool.
MaxRegistered == 2

\* Class names that get registered in the Pool.
ClassNames == {"A", "B"}

\* Python's None.
None == "None"

\* ex.message of the faults raised by run(), fail() and pre_condition(),
\* and traceback.format_exc().
RunFault == "run() raised"
FailFault == "fail() raised"
PreConditionFault == "pre condition not satisfied"
Traceback == "traceback"

\* Values a concrete check may leave in self.message.
Messages == {None, "disk 80% full"}

\* What a concrete check does when it is run: what run() returns (or that
\* it raises), the warn flag and message it leaves behind, and whether
\* fail() raises.  fail() is only ever reached after run() returned False.
Behaviours ==
    {b \in [ret : {"true", "false", "raise"}, warn : BOOLEAN,
            message : Messages, fail_raises : BOOLEAN] :
        b.fail_raises => b.ret = "false"}

\* d[k] = v on a Python dict.
Put(d, k, v) == [x \in (DOMAIN d) \cup {k} |-> IF x = k THEN v ELSE d[x]]

VARIABLES
    stage,      \* the Stage object and the locals of its execute()
    executor,   \* the Executor object
    pool        \* the class attributes of Pool

vars == <<stage, executor, pool>>

\* No object constructed yet.
NoObject == [pc |-> "none"]

---------------------------------------------------------------------------
(* InfraTest *)

\* InfraTest.__init__.  calls is the history of the calls made on the
\* check's abstract methods; pc tells whether execute() has returned.
NewInfraTest(name) ==
    [name |-> name, description |-> "description", message |-> None,
     warn |-> FALSE, exit_code |-> 0,
     report |-> [name |-> name, description |-> "description",
                 result |-> "fail"],
     calls |-> <<>>, pc |-> "constructed"]

\* A call of the abstract run(): it may set warn and message.
run(t, b) ==
    [t EXCEPT !.warn = b.warn, !.message = b.message,
              !.calls = Append(@, [op |-> "run", outcome |-> b.ret])]

\* A call of the abstract fail().
fail(t, b) ==
    [t EXCEPT !.calls = Append(@, [op |-> "fail",
                  outcome |-> IF b.fail_raises THEN "raise" ELSE "return"])]

\* InfraTest.execute without the outer except clause: a fault of run()
\* leaves execute().
InfraTest_try_Uncaught(t, b) ==
    LET ran == run(t, b) IN
    IF b.ret = "raise"
    THEN [ran EXCEPT !.pc = "raised"]
    ELSE IF b.ret = "true"
    THEN [ran EXCEPT !.exit_code = IF ran.warn THEN 3 ELSE @,
                     !.report = Put(@, "result", "pass")]
    ELSE LET failed == fail([ran EXCEPT !.exit_code = 1], b) IN
         IF b.fail_raises
         THEN [failed EXCEPT !.report = Put(Put(@, "error", FailFault),
                                            "trace", Traceback)]
         ELSE failed

\* InfraTest.execute raising the warning exit code only when the check
\* carries a message.
InfraTest_try_WarnNeedsMessage(t, b) ==
    LET ran == run(t, b) IN
    IF b.ret = "raise"
    THEN [ran EXCEPT !.exit_code = 1,
                     !.report = Put(Put(Put(@, "result", "exec_fail"),
                                        "error", RunFault),
                                    "trace", Traceback)]
    ELSE IF b.ret = "true"
    THEN [ran EXCEPT !.exit_code = IF ran.warn /\ ran.message # None
                                   THEN 3 ELSE @,
                     !.report = Put(@, "result", "pass")]
    ELSE LET failed == fail([ran EXCEPT !.exit_code = 1], b) IN
         IF b.fail_raises
         THEN [failed EXCEPT !.report = Put(Put(@, "error", FailFault),
                                            "trace", Traceback)]
         ELSE failed

\* InfraTest.execute calling fail() in the handler of run()'s fault too.
InfraTest_try_FailOnFault(t, b) ==
    LET ran == run(t, b) IN
    IF b.ret = "raise"
    THEN [fail(ran, b) EXCEPT
                     !.exit_code = 1,
                     !.report = Put(Put(Put(@, "result", "exec_fail"),
                                        "error", RunFault),
                                    "trace", Traceback)]
    ELSE IF b.ret = "true"
    THEN [ran EXCEPT !.exit_code = IF ran.warn THEN 3 ELSE @,
                     !.report = Put(@, "result", "pass")]
    ELSE LET failed == fail([ran EXCEPT !.exit_code = 1], b) IN
         IF b.fail_raises
         THEN [failed EXCEPT !.report = Put(Put(@, "error", FailFault),
                                            "trace", Traceback)]
         ELSE failed

\* InfraTest.execute reporting a passed check that warns as 'warning'.
InfraTest_try_WarningResult(t, b) ==
    LET ran == run(t, b) IN
    IF b.ret = "raise"
    THEN [ran EXCEPT !.exit_code = 1,
                     !.report = Put(Put(Put(@, "result", "exec_fail"),
                                        "error", RunFault),
                                    "trace", Traceback)]
    ELSE IF b.ret = "true"
    THEN [ran EXCEPT !.exit_code = IF ran.warn THEN 3 ELSE @,
                     !.report = Put(@, "result",
                                    IF ran.warn THEN "warning" ELSE "pass")]
    ELSE LET failed == fail([ran EXCEPT !.exit_code = 1], b) IN
         IF b.fail_raises
         THEN [failed EXCEPT !.report = Put(Put(@, "error", FailFault),
                                            "trace", Traceback)]
         ELSE failed

\* InfraTest.execute, lines 79-106: the try statement.
InfraTest_try(t, b) ==
    LET ran == run(t, b) IN
    IF b.ret = "raise"
    THEN [ran EXCEPT !.exit_code = 1,
                     !.report = Put(Put(Put(@, "result", "exec_fail"),
                                        "error", RunFault),
                                    "trace", Traceback)]
    ELSE IF b.ret = "true"
    THEN [ran EXCEPT !.exit_code = IF ran.warn THEN 3 ELSE @,
                     !.report = Put(@, "result", "pass")]
    ELSE LET failed == fail([ran EXCEPT !.exit_code = 1], b) IN
         IF b.fail_raises
         THEN [failed EXCEPT !.report = Put(Put(@, "error", FailFault),
                                            "trace", Traceback)]
         ELSE failed

\* InfraTest.execute attaching the message inside the try statement: a
\* fault of run() skips it.
InfraTest_execute_MessageInTry(t, b) ==
    LET tried == InfraTest_try(t, b) IN
    IF tried.pc = "raised"
    THEN tried
    ELSE [(IF tried.message # None /\ b.ret # "raise"
           THEN [tried EXCEPT !.report = Put(@, "message", tried.message)]
           ELSE tried) EXCEPT !.pc = "returned"]

\* InfraTest.execute.
InfraTest_execute(t, b) ==
    LET tried == InfraTest_try(t, b) IN
    IF tried.pc = "raised"
    THEN tried
    ELSE [(IF tried.message # None
           THEN [tried EXCEPT !.report = Put(@, "message", tried.message)]
           ELSE tried) EXCEPT !.pc = "returned"]

---------------------------------------------------------------------------
(* Executor *)

\* Executor.__init__; a concrete executor may clear hard_error_pre_condition.
\* calls is the history of the calls execute() makes, api what it emits,
\* hooks the history of the registration hooks the constructor calls: none.
NewExecutor(hard) ==
    [pc |-> "constructed", name |-> "executor",
     report |-> [executor_name |-> "executor"],
     infra_tests |-> <<>>, exit_code |-> 0,
     hard_error_pre_condition |-> hard,
     hooks |-> <<>>, calls |-> <<>>, api |-> <<>>]

\* Executor.register_infra_test.
register_infra_test(e, t) == [e EXCEPT !.infra_tests = Append(@, t)]

\* Executor.run: it logs the names of the registered tests.
Executor_run(e) ==
    [e EXCEPT !.calls = Append(@, [op |-> "run", outcome |-> "return"])]

\* post_process testing for a warning before it tests for a failure.
post_process_WarningFirst(e) ==
    LET n == Len(e.infra_tests)
        test_reports == [i \in 1..n |-> e.infra_tests[i].report]
        report == Put(e.report, "reports", test_reports)
        exit_codes == {e.infra_tests[i].exit_code : i \in 1..n}
        emitted == [e EXCEPT !.api = Append(@, report),
                             !.calls = Append(@, [op |-> "post_process",
                                                  outcome |-> "return"])]
    IN  IF 3 \in exit_codes
        THEN [emitted EXCEPT !.exit_code = 3,
                             !.report = Put(report, "result", "warning")]
        ELSE IF 1 \in exit_codes
        THEN [emitted EXCEPT !.exit_code = 1,
                             !.report = Put(report, "result", "fail")]
        ELSE [emitted EXCEPT !.report = Put(report, "result", "pass")]

\* Executor.post_process.
post_process(e) ==
    LET n == Len(e.infra_tests)
        test_reports == [i \in 1..n |-> e.infra_tests[i].report]
        report == Put(e.report, "reports", test_reports)
        exit_codes == {e.infra_tests[i].exit_code : i \in 1..n}
        emitted == [e EXCEPT !.api = Append(@, report),
                             !.calls = Append(@, [op |-> "post_process",
                                                  outcome |-> "return"])]
    IN  IF 1 \in exit_codes
        THEN [emitted EXCEPT !.exit_code = 1,
                             !.report = Put(report, "result", "fail")]
        ELSE IF 3 \in exit_codes
        THEN [emitted EXCEPT !.exit_code = 3,
                             !.report = Put(report, "result", "warning")]
        ELSE [emitted EXCEPT !.report = Put(report, "result", "pass")]

\* Executor.execute without the return that ends the except clause.
Executor_execute_NoReturn(e, pre) ==
    LET gated == [e EXCEPT !.calls = Append(@, [op |-> "pre_condition",
                                                outcome |-> pre])]
    IN
    IF pre = "PreConditionNotSatisfiedError" /\ e.hard_error_pre_condition
    THEN [post_process(Executor_run(
              [gated EXCEPT !.report = Put(Put(Put(@, "result", "exec_fail"),
                                               "error", PreConditionFault),
                                           "trace", Traceback)]))
          EXCEPT !.pc = "returned"]
    ELSE IF pre = "Exception"
    THEN [gated EXCEPT !.pc = "raised"]
    ELSE [post_process(Executor_run(gated)) EXCEPT !.pc = "returned"]

\* Executor.execute with `except Exception`: any fault of pre_condition()
\* is handled like the precondition fault.
Executor_execute_CatchAll(e, pre) ==
    LET gated == [e EXCEPT !.calls = Append(@, [op |-> "pre_condition",
                                                outcome |-> pre])]
    IN
    IF pre # "return" /\ e.hard_error_pre_condition
    THEN [gated EXCEPT !.report = Put(Put(Put(@, "result", "exec_fail"),
                                          "error", PreConditionFault),
                                      "trace", Traceback),
                       !.pc = "returned"]
    ELSE [post_process(Executor_run(gated)) EXCEPT !.pc = "returned"]

\* Executor.execute treating the precondition fault as fatal whatever
\* hard_error_pre_condition says.
Executor_execute_AlwaysFatal(e, pre) ==
    LET gated == [e EXCEPT !.calls = Append(@, [op |-> "pre_condition",
                                                outcome |-> pre])]
    IN
    IF pre = "PreConditionNotSatisfiedError"
    THEN [gated EXCEPT !.report = Put(Put(Put(@, "result", "exec_fail"),
                                          "error", PreConditionFault),
                                      "trace", Traceback),
                       !.pc = "returned"]
    ELSE IF pre = "Exception"
    THEN [gated EXCEPT !.pc = "raised"]
    ELSE [post_process(Executor_run(gated)) EXCEPT !.pc = "returned"]

\* Executor.execute; pre is what the abstract pre_condition() does.
Executor_execute(e, pre) ==
    LET gated == [e EXCEPT !.calls = Append(@, [op |-> "pre_condition",
                                                outcome |-> pre])]
    IN
    IF pre = "PreConditionNotSatisfiedError" /\ e.hard_error_pre_condition
    THEN [gated EXCEPT !.report = Put(Put(Put(@, "result", "exec_fail"),
                                          "error", PreConditionFault),
                                      "trace", Traceback),
                       !.pc = "returned"]
    ELSE IF pre = "Exception"
    THEN [gated EXCEPT !.pc = "raised"]
    ELSE [post_process(Executor_run(gated)) EXCEPT !.pc = "returned"]

---------------------------------------------------------------------------
(* Stage *)

\* A call of the abstract register_tests() hook: a concrete Stage appends
\* k new checks to infra_tests.  hooks is the history of the calls of the
\* hook, with the number of checks each registered.
register_tests(s, k) ==
    [s EXCEPT !.infra_tests =
                  @ \o [i \in 1..k |-> NewInfraTest(Len(s.infra_tests) + i)],
              !.hooks = Append(@, k)]

\* Stage.__init__ leaving out the call of the hook.
NewStage_NoHook(k) ==
    [pc |-> "constructed", name |-> "stage", infra_tests |-> <<>>,
     hooks |-> <<>>, calls |-> <<>>, api |-> <<>>]

\* Stage.__init__: an empty list, then the register_tests() hook.
NewStage(k) ==
    register_tests([pc |-> "constructed", name |-> "stage",
                    infra_tests |-> <<>>, hooks |-> <<>>,
                    calls |-> <<>>, api |-> <<>>], k)

\* Stage.execute, lines 206-211: up to the loop.
Stage_begin(s) ==
    [x \in (DOMAIN s) \cup {"exit_code", "reports", "i"} |->
        CASE x = "exit_code" -> 0
          [] x = "reports" -> <<>>
          [] x = "i" -> 0
          [] x = "pc" -> "loop"
          [] OTHER -> s[x]]

\* The loop body without the inner try: a fault of fail() reaches the
\* outer except clause.
Stage_try_FailUncaught(t, b, exit_code) ==
    LET ran == run(t, b)
        report == [name |-> t.name, description |-> t.description,
                   result |-> "fail"]
    IN  IF b.ret = "raise" \/ b.fail_raises
        THEN [test |-> IF b.ret = "raise" THEN ran ELSE fail(ran, b),
              exit_code |-> 1, raised |-> FALSE,
              report |-> Put(Put(Put(report, "result", "exec_fail"),
                                 "error",
                                 IF b.ret = "raise" THEN RunFault
                                                    ELSE FailFault),
                             "trace", Traceback)]
        ELSE IF b.ret = "true"
        THEN [test |-> ran, raised |-> FALSE,
              exit_code |-> IF ran.warn THEN 3 ELSE exit_code,
              report |-> Put(report, "result", "pass")]
        ELSE [test |-> fail(ran, b), exit_code |-> 1, raised |-> FALSE,
              report |-> report]

\* The loop body without the outer except clause: a fault of run() leaves
\* Stage.execute.
Stage_try_RunUncaught(t, b, exit_code) ==
    LET ran == run(t, b)
        report == [name |-> t.name, description |-> t.description,
                   result |-> "fail"]
    IN  IF b.ret = "raise"
        THEN [test |-> ran, exit_code |-> exit_code, raised |-> TRUE,
              report |-> report]
        ELSE IF b.ret = "true"
        THEN [test |-> ran, raised |-> FALSE,
              exit_code |-> IF ran.warn THEN 3 ELSE exit_code,
              report |-> Put(report, "result", "pass")]
        ELSE [test |-> fail(ran, b), exit_code |-> 1, raised |-> FALSE,
              report |-> IF b.ret = "false" /\ b.fail_raises
                         THEN Put(Put(report, "error", FailFault),
                                  "trace", Traceback)
                         ELSE report]

\* The loop body producing the documented exit code 4 when failures and
\* warnings mix.
Stage_try_MixedFour(t, b, exit_code) ==
    LET ran == run(t, b)
        report == [name |-> t.name, description |-> t.description,
                   result |-> "fail"]
        failure == IF exit_code \in {3, 4} THEN 4 ELSE 1
    IN  IF b.ret = "raise"
        THEN [test |-> ran, exit_code |-> failure, raised |-> FALSE,
              report |-> Put(Put(Put(report, "result", "exec_fail"),
                                 "error", RunFault),
                             "trace", Traceback)]
        ELSE IF b.ret = "true"
        THEN [test |-> ran, raised |-> FALSE,
              exit_code |-> IF ran.warn
                            THEN (IF exit_code \in {1, 4} THEN 4 ELSE 3)
                            ELSE exit_code,
              report |-> Put(report, "result", "pass")]
        ELSE [test |-> fail(ran, b), exit_code |-> failure, raised |-> FALSE,
              report |-> IF b.fail_raises
                         THEN Put(Put(report, "error", FailFault),
                                  "trace", Traceback)
                         ELSE report]

\* Stage.execute, lines 214-239: the report and try statement of one
\* iteration.  The result is the check, the report and the exit code.
Stage_try(t, b, exit_code) ==
    LET ran == run(t, b)
        report == [name |-> t.name, description |-> t.description,
                   result |-> "fail"]
    IN  IF b.ret = "raise"
        THEN [test |-> ran, exit_code |-> 1, raised |-> FALSE,
              report |-> Put(Put(Put(report, "result", "exec_fail"),
                                 "error", RunFault),
                             "trace", Traceback)]
        ELSE IF b.ret = "true"
        THEN [test |-> ran, raised |-> FALSE,
              exit_code |-> IF ran.warn THEN 3 ELSE exit_code,
              report |-> Put(report, "result", "pass")]
        ELSE [test |-> fail(ran, b), exit_code |-> 1, raised |-> FALSE,
              report |-> IF b.fail_raises
                         THEN Put(Put(report, "error", FailFault),
                                  "trace", Traceback)
                         ELSE report]

\* One iteration of the loop attaching the message to the report of a
\* passed check only.
Stage_iterate_MessageOnPass(s, b) ==
    LET i == s.i + 1
        tried == Stage_try(s.infra_tests[i], b, s.exit_code)
        report == IF tried.test.message # None /\ b.ret = "true"
                  THEN Put(tried.report, "message", tried.test.message)
                  ELSE tried.report
        called == [s EXCEPT !.infra_tests[i] = tried.test,
                            !.calls = @ \o [j \in 1..Len(tried.test.calls) |->
                                  [test |-> i, op |-> tried.test.calls[j].op]]]
    IN  IF tried.raised
        THEN [called EXCEPT !.pc = "raised"]
        ELSE [called EXCEPT !.i = i, !.exit_code = tried.exit_code,
                            !.reports = Append(@, report)]

\* Stage.execute, lines 212-243: one iteration of the loop, on the next
\* check of infra_tests.
Stage_iterate(s, b) ==
    LET i == s.i + 1
        tried == Stage_try(s.infra_tests[i], b, s.exit_code)
        report == IF tried.test.message # None
                  THEN Put(tried.report, "message", tried.test.message)
                  ELSE tried.report
        called == [s EXCEPT !.infra_tests[i] = tried.test,
                            !.calls = @ \o [j \in 1..Len(tried.test.calls) |->
                                  [test |-> i, op |-> tried.test.calls[j].op]]]
    IN  IF tried.raised
        THEN [called EXCEPT !.pc = "raised"]
        ELSE [called EXCEPT !.i = i, !.exit_code = tried.exit_code,
                            !.reports = Append(@, report)]

\* Stage.execute, lines 244-245: emit the reports and return exit_code.
Stage_end(s) ==
    [x \in (DOMAIN s) \cup {"returned"} |->
        CASE x = "returned" -> s.exit_code
          [] x = "api" -> Append(s.api, s.reports)
          [] x = "pc" -> "returned"
          [] OTHER -> s[x]]

---------------------------------------------------------------------------
(* Pool *)

\* The class body of Pool: two empty lists.  log is the history of the
\* registrations made.
NewPool == [tests |-> <<>>, stages |-> <<>>, log |-> <<>>]

\* Pool.register_test skipping a name that is already registered.
register_test_Dedup(p, name) ==
    [p EXCEPT !.tests = IF \E i \in DOMAIN p.tests : p.tests[i] = name
                        THEN @ ELSE Append(@, name),
              !.log = Append(@, [op |-> "register_test", name |-> name])]

\* Pool.register_test.
register_test(p, name) ==
    [p EXCEPT !.tests = Append(@, name),
              !.log = Append(@, [op |-> "register_test", name |-> name])]

\* Pool.register_stage.
register_stage(p, name) ==
    [p EXCEPT !.stages = Append(@, name),
              !.log = Append(@, [op |-> "register_stage", name |-> name])]

\* Pool.get_all_tests and Pool.get_all_stages.
get_all_tests(p) == p.tests
get_all_stages(p) == p.stages

\* StageType.__init__ and InfraTestType.__init__: defining a class with
\* one of these metaclasses registers the class name.
StageType_init(p, name) == register_stage(p, name)
InfraTestType_init(p, name) == register_test(p, name)

---------------------------------------------------------------------------
(* The driver *)

Init ==
    /\ stage = NoObject
    /\ executor = NoObject
    /\ pool = NewPool

\* Stage(name, config_master_host, lightweight_component_hosts)
StageInit ==
    /\ stage.pc = "none"
    /\ executor.pc = "none"
    /\ \E k \in 0..MaxTests : stage' = NewStage(k)
    /\ UNCHANGED <<executor, pool>>

\* stage.execute(): entry
StageExecuteBegin ==
    /\ stage.pc = "constructed"
    /\ stage' = Stage_begin(stage)
    /\ UNCHANGED <<executor, pool>>

\* stage.execute(): one iteration of `for test in self.infra_tests`
StageExecuteTest ==
    /\ stage.pc = "loop"
    /\ stage.i < Len(stage.infra_tests)
    /\ \E b \in Behaviours : stage' = Stage_iterate(stage, b)
    /\ UNCHANGED <<executor, pool>>

\* stage.execute(): loop exhausted
StageExecuteEnd ==
    /\ stage.pc = "loop"
    /\ stage.i = Len(stage.infra_tests)
    /\ stage' = Stage_end(stage)
    /\ UNCHANGED <<executor, pool>>

\* Executor(name)
ExecutorInit ==
    /\ executor.pc = "none"
    /\ stage.pc = "none"
    /\ \E hard \in BOOLEAN : executor' = NewExecutor(hard)
    /\ UNCHANGED <<stage, pool>>

\* executor.register_infra_test(InfraTest(...))
RegisterInfraTest ==
    /\ executor.pc = "constructed"
    /\ Len(executor.infra_tests) < MaxTests
    /\ executor' = register_infra_test(executor,
                       NewInfraTest(Len(executor.infra_tests) + 1))
    /\ UNCHANGED <<stage, pool>>

\* infra_test.execute() on a registered check that has not been executed
InfraTestExecute ==
    /\ executor.pc = "constructed"
    /\ \E i \in 1..Len(executor.infra_tests) :
        /\ executor.infra_tests[i].pc = "constructed"
        /\ \E b \in Behaviours :
             executor' = [executor EXCEPT !.infra_tests[i] =
                                              InfraTest_execute(@, b)]
    /\ UNCHANGED <<stage, pool>>

\* executor.execute()
ExecutorExecute ==
    /\ executor.pc = "constructed"
    /\ \E pre \in {"return", "PreConditionNotSatisfiedError", "Exception"} :
         executor' = Executor_execute(executor, pre)
    /\ UNCHANGED <<stage, pool>>

Next ==
    \/ StageInit
    \/ StageExecuteBegin
    \/ StageExecuteTest
    \/ StageExecuteEnd
    \/ ExecutorInit
    \/ RegisterInfraTest
    \/ InfraTestExecute
    \/ ExecutorExecute

Spec == Init /\ [][Next]_vars

\* Pool.register_test(name)
PoolRegisterTest ==
    /\ Len(pool.tests) < MaxRegistered
    /\ \E name \in ClassNames : pool' = register_test(pool, name)
    /\ UNCHANGED <<stage, executor>>

\* Pool.register_stage(name)
PoolRegisterStage ==
    /\ Len(pool.stages) < MaxRegistered
    /\ \E name \in ClassNames : pool' = register_stage(pool, name)
    /\ UNCHANGED <<stage, executor>>

\* class name(...): __metaclass__ = InfraTestType
DefineInfraTestClass ==
    /\ Len(pool.tests) < MaxRegistered
    /\ \E name \in ClassNames : pool' = InfraTestType_init(pool, name)
    /\ UNCHANGED <<stage, executor>>

\* class name(...): __metaclass__ = StageType
DefineStageClass ==
    /\ Len(pool.stages) < MaxRegistered
    /\ \E name \in ClassNames : pool' = StageType_init(pool, name)
    /\ UNCHANGED <<stage, executor>>

PoolNext ==
    \/ PoolRegisterTest
    \/ PoolRegisterStage
    \/ DefineInfraTestClass
    \/ DefineStageClass

\* The registry on its own: classes are defined, and register themselves,
\* before any Group is constructed.
PoolSpec == Init /\ [][PoolNext]_vars

\* Once execute() is entered the single thread keeps running the loop to
\* its end: run() and fail() are synchronous calls that return or raise.
FairSpec ==
    /\ Spec
    /\ WF_vars(StageExecuteTest)
    /\ WF_vars(StageExecuteEnd)

---------------------------------------------------------------------------
(* Properties *)

\* The checks registered in the Executor and in the Stage.
ExecutorTests == IF executor.pc = "none" THEN <<>> ELSE executor.infra_tests
StageTests == IF stage.pc = "none" THEN <<>> ELSE stage.infra_tests

\* Number of checks the loop of Stage.execute has completed.
StageCompleted == IF stage.pc \in {"none", "constructed"} THEN 0 ELSE stage.i

Executed(t) == t.calls # <<>>
RunOutcome(t) == t.calls[1].outcome
FailRaised(t) ==
    \E j \in DOMAIN t.calls :
        t.calls[j].op = "fail" /\ t.calls[j].outcome = "raise"
FailCount(t) == Cardinality({j \in DOMAIN t.calls : t.calls[j].op = "fail"})

\* post_process has run in executor.execute().
PostProcessed ==
    /\ executor.pc = "returned"
    /\ \E j \in DOMAIN executor.calls : executor.calls[j].op = "post_process"

MemberExitCodes == {ExecutorTests[i].exit_code : i \in DOMAIN ExecutorTests}

\* C1: after post_process the Executor's exit code and result are decided
\* by the set of member exit codes alone: 1/fail if any member has 1,
\* else 3/warning if any has 3, else 0/pass, whatever the members' order.
C1_PostProcessAggregation ==
    PostProcessed =>
        /\ MemberExitCodes \subseteq {0, 1, 3}
        /\ 1 \in MemberExitCodes =>
              executor.exit_code = 1 /\ executor.report.result = "fail"
        /\ (1 \notin MemberExitCodes /\ 3 \in MemberExitCodes) =>
              executor.exit_code = 3 /\ executor.report.result = "warning"
        /\ MemberExitCodes \subseteq {0} =>
              executor.exit_code = 0 /\ executor.report.result = "pass"

\* A warning member registered before a failing one aggregates to 1.
C1_Witness ==
    /\ PostProcessed
    /\ \E i, j \in DOMAIN ExecutorTests :
          /\ i < j
          /\ ExecutorTests[i].exit_code = 3
          /\ ExecutorTests[j].exit_code = 1
    /\ executor.exit_code = 1

\* C2: Stage.execute returns 1 whenever run() of at least one registered
\* check returned False or raised, wherever that check stands in the list.
C2_StageFailurePrecedence ==
    stage.pc = "returned" =>
        ((\E i \in DOMAIN StageTests :
              RunOutcome(StageTests[i]) \in {"false", "raise"})
            => stage.returned = 1)

\* C3: when run() raises, InfraTest.execute returns normally with result
\* exec_fail, exit code 1, the fault's message and a trace on the report,
\* and fail() not called.
C3_VerificationFaultContained ==
    \A i \in DOMAIN ExecutorTests :
        LET t == ExecutorTests[i] IN
        (Executed(t) /\ RunOutcome(t) = "raise") =>
            /\ t.pc = "returned"
            /\ t.report.result = "exec_fail"
            /\ t.exit_code = 1
            /\ {"error", "trace"} \subseteq DOMAIN t.report
            /\ t.report.error = RunFault
            /\ t.report.trace = Traceback
            /\ FailCount(t) = 0

C3_Witness ==
    \E i \in DOMAIN ExecutorTests :
        /\ Executed(ExecutorTests[i])
        /\ RunOutcome(ExecutorTests[i]) = "raise"
        /\ ExecutorTests[i].pc = "returned"

\* C4: when run() returns False and fail() raises, the fault is caught in
\* the check's execution: the report's result stays fail, the exit code
\* the check contributes is 1, error and trace are on that report, and
\* execution goes on (execute() returns; the Stage's loop continues).
C4_FailureHandlingFaultContained ==
    /\ \A i \in DOMAIN ExecutorTests :
          LET t == ExecutorTests[i] IN
          FailRaised(t) =>
              /\ t.pc = "returned"
              /\ t.report.result = "fail"
              /\ t.exit_code = 1
              /\ {"error", "trace"} \subseteq DOMAIN t.report
              /\ t.report.error = FailFault
    /\ \A i \in DOMAIN StageTests :
          FailRaised(StageTests[i]) =>
              /\ stage.pc \in {"loop", "returned"}
              /\ i <= stage.i
              /\ stage.reports[i].result = "fail"
              /\ {"error", "trace"} \subseteq DOMAIN stage.reports[i]
              /\ stage.reports[i].error = FailFault
              /\ (i = stage.i /\ stage.pc = "loop") => stage.exit_code = 1

\* fail() of the first check raised and the Stage ran the next check.
C4_Witness ==
    /\ stage.pc = "returned"
    /\ Len(StageTests) >= 2
    /\ FailRaised(StageTests[1])
    /\ Executed(StageTests[2])

\* The loop of Stage.execute has run the first StageCompleted checks, once
\* each and in registration order, and built one report for each.
StageBatchInv ==
    /\ stage.pc # "raised"
    /\ stage.pc \in {"loop", "returned"} =>
          /\ stage.i <= Len(stage.infra_tests)
          /\ Len(stage.reports) = stage.i
          /\ \A j \in 1..stage.i :
                stage.reports[j].name = stage.infra_tests[j].name
          /\ LET runs == SelectSeq(stage.calls, LAMBDA c : c.op = "run")
             IN  runs = [j \in 1..stage.i |-> [test |-> j, op |-> "run"]]
    /\ stage.pc = "returned" =>
          /\ stage.i = Len(stage.infra_tests)
          /\ stage.api = <<stage.reports>>

\* C5: Stage.execute terminates, having called run() on every registered
\* check exactly once in registration order and built one report per
\* check in that order, whatever the checks do.
C5_StageBatchComplete ==
    /\ []StageBatchInv
    /\ (stage.pc = "loop") ~> (stage.pc = "returned")

\* A run() that raised and a fail() that raised, and the batch completed.
C5_Witness ==
    /\ stage.pc = "returned"
    /\ Len(StageTests) >= 3
    /\ RunOutcome(StageTests[1]) = "raise"
    /\ FailRaised(StageTests[2])
    /\ Len(stage.reports) = Len(StageTests)

\* executor.execute() got past the precondition gate.
PastGate ==
    /\ executor.pc = "returned"
    /\ \E j \in DOMAIN executor.calls : executor.calls[j].op = "run"

\* C6: when Executor.execute gets past the precondition gate, every
\* registered check has been executed by the time it returns.
C6_ExecutorRunsEveryCheck ==
    PastGate =>
        \A i \in DOMAIN ExecutorTests : ExecutorTests[i].pc = "returned"

\* executor.execute() is the step taken and pre_condition() raised the
\* precondition fault with the fatal flag set.
FatalPreConditionStep ==
    /\ executor.pc = "constructed"
    /\ executor'.pc # "constructed"
    /\ executor.hard_error_pre_condition
    /\ executor'.calls[1] =
          [op |-> "pre_condition", outcome |-> "PreConditionNotSatisfiedError"]

\* C7: on a fatal precondition failure execute() returns normally, calls
\* neither run nor post_process nor any check, sets the result exec_fail
\* and the error to the fault's message, and adds no per-check reports.
C7_FatalPreConditionShortCircuit ==
    [][FatalPreConditionStep =>
          /\ executor'.pc = "returned"
          /\ Len(executor'.calls) = 1
          /\ executor'.infra_tests = executor.infra_tests
          /\ executor'.report.result = "exec_fail"
          /\ executor'.report.error = PreConditionFault
          /\ "reports" \notin DOMAIN executor'.report
          /\ executor'.api = <<>>]_vars

C7_Witness ==
    /\ executor.pc = "returned"
    /\ executor.hard_error_pre_condition
    /\ executor.calls[1].outcome = "PreConditionNotSatisfiedError"
    /\ Len(executor.infra_tests) = 2
    /\ executor.report.result = "exec_fail"

\* C8: InfraTest.execute on a fresh check whose run() does not raise:
\* True without the warning flag gives 0/pass, True with the warning flag
\* gives 3/pass whatever the message, False gives 1/fail.
C8_ExitCodeMapping ==
    \A i \in DOMAIN ExecutorTests :
        LET t == ExecutorTests[i] IN
        Executed(t) =>
            /\ (RunOutcome(t) = "true" /\ ~t.warn) =>
                  t.exit_code = 0 /\ t.report.result = "pass"
            /\ (RunOutcome(t) = "true" /\ t.warn) =>
                  t.exit_code = 3 /\ t.report.result = "pass"
            /\ RunOutcome(t) = "false" =>
                  t.exit_code = 1 /\ t.report.result = "fail"

\* A warning without a message.
C8_Witness ==
    \E i \in DOMAIN ExecutorTests :
        LET t == ExecutorTests[i] IN
        /\ Executed(t)
        /\ RunOutcome(t) = "true"
        /\ t.warn
        /\ t.message = None
        /\ t.exit_code = 3

\* The calls one execution made on a check: run() first, then fail()
\* exactly once if run() returned False and not at all otherwise.
RunThenFail(t) ==
    Executed(t) =>
        /\ t.calls[1].op = "run"
        /\ FailCount(t) = IF RunOutcome(t) = "false" THEN 1 ELSE 0
        /\ \A j \in DOMAIN t.calls : t.calls[j].op = "fail" => j > 1

\* C9: in InfraTest.execute and in the loop of Stage.execute, fail() is
\* called exactly once iff run() returned False, never when run() returned
\* True or raised, and never before run() has returned.
C9_FailOnlyAfterRunReturnedFalse ==
    /\ \A i \in DOMAIN ExecutorTests : RunThenFail(ExecutorTests[i])
    /\ \A i \in DOMAIN StageTests : RunThenFail(StageTests[i])

\* One check whose run() returned False and one whose run() raised.
C9_Witness ==
    \E i, j \in DOMAIN ExecutorTests :
        /\ Executed(ExecutorTests[i])
        /\ RunOutcome(ExecutorTests[i]) = "false"
        /\ FailCount(ExecutorTests[i]) = 1
        /\ Executed(ExecutorTests[j])
        /\ RunOutcome(ExecutorTests[j]) = "raise"

\* C10: after executor.execute() has returned, exit_code is 0 only if all
\* registered checks passed: the result is pass and every check's report
\* says pass.
C10_ExitZeroOnlyIfAllPassed ==
    (executor.pc = "returned" /\ executor.exit_code = 0) =>
        /\ executor.report.result = "pass"
        /\ \A i \in DOMAIN ExecutorTests :
              ExecutorTests[i].report.result = "pass"


\* executor.execute() is the step taken and pre_condition() raised a
\* fault other than PreConditionNotSatisfiedError.
UndeclaredFaultStep ==
    /\ executor.pc = "constructed"
    /\ executor'.pc # "constructed"
    /\ executor'.calls[1] = [op |-> "pre_condition", outcome |-> "Exception"]

\* C11: a fault of pre_condition() other than the precondition fault is
\* not recovered: it leaves execute(), no check is run, neither run nor
\* post_process is called, and report and exit_code are left as they
\* were, whatever the fatal flag.
C11_UndeclaredFaultPropagates ==
    [][UndeclaredFaultStep =>
          /\ executor'.pc = "raised"
          /\ Len(executor'.calls) = 1
          /\ executor'.infra_tests = executor.infra_tests
          /\ executor'.report = executor.report
          /\ executor'.exit_code = executor.exit_code
          /\ executor'.api = executor.api]_vars

\* The fault left an Executor whose precondition failures are not fatal.
C11_Witness ==
    /\ executor.pc = "raised"
    /\ ~executor.hard_error_pre_condition
    /\ executor.calls[1].outcome = "Exception"
    /\ Len(executor.infra_tests) >= 1

\* executor.execute() is the step taken and pre_condition() raised the
\* precondition fault with the fatal flag cleared.
NonFatalPreConditionStep ==
    /\ executor.pc = "constructed"
    /\ executor'.pc # "constructed"
    /\ ~executor.hard_error_pre_condition
    /\ executor'.calls[1] =
          [op |-> "pre_condition", outcome |-> "PreConditionNotSatisfiedError"]

\* C12: with the fatal flag cleared a precondition fault changes nothing:
\* run and then post_process are called, the result is pass, warning or
\* fail as the member exit codes decide, and the report carries no error
\* and no trace.
C12_NonFatalPreConditionProceeds ==
    [][NonFatalPreConditionStep =>
          LET codes == {executor.infra_tests[i].exit_code :
                            i \in DOMAIN executor.infra_tests}
          IN  /\ executor'.pc = "returned"
              /\ [j \in DOMAIN executor'.calls |-> executor'.calls[j].op] =
                    <<"pre_condition", "run", "post_process">>
              /\ executor'.infra_tests = executor.infra_tests
              /\ executor'.report.result =
                    IF 1 \in codes THEN "fail"
                    ELSE IF 3 \in codes THEN "warning" ELSE "pass"
              /\ executor'.exit_code =
                    IF 1 \in codes THEN 1 ELSE IF 3 \in codes THEN 3 ELSE 0
              /\ DOMAIN executor'.report =
                    {"executor_name", "reports", "result"}]_vars

\* A non-fatal precondition failure followed by a warning aggregate.
C12_Witness ==
    /\ executor.pc = "returned"
    /\ ~executor.hard_error_pre_condition
    /\ executor.calls[1].outcome = "PreConditionNotSatisfiedError"
    /\ executor.report.result = "warning"


\* C13: the record post_process emits holds the group name, the result
\* of this execution and the ordered per-check reports.
C13_EmittedReportHasResult ==
    PostProcessed =>
        /\ Len(executor.api) = 1
        /\ {"executor_name", "result", "reports"} \subseteq
              DOMAIN executor.api[1]
        /\ executor.api[1].result = executor.report.result
        /\ executor.api[1].reports =
              [i \in DOMAIN ExecutorTests |-> ExecutorTests[i].report]

\* The result a report must carry for what run() did.
ResultFor(outcome) ==
    CASE outcome = "true" -> "pass"
      [] outcome = "raise" -> "exec_fail"
      [] outcome = "false" -> "fail"

\* C14: a check's report result is always pass, fail or exec_fail: fail
\* from construction on, pass once run() has returned True, exec_fail once
\* run() has raised, and nothing else changes it; the same holds of the
\* reports Stage.execute builds.
C14_ReportResultInvariant ==
    /\ \A i \in DOMAIN ExecutorTests :
          LET t == ExecutorTests[i] IN
          /\ t.report.result \in {"pass", "fail", "exec_fail"}
          /\ ~Executed(t) => t.report.result = "fail"
          /\ Executed(t) => t.report.result = ResultFor(RunOutcome(t))
    /\ \A i \in DOMAIN StageTests :
          StageTests[i].report.result \in {"pass", "fail", "exec_fail"}
    /\ \A i \in 1..StageCompleted :
          /\ stage.reports[i].result \in {"pass", "fail", "exec_fail"}
          /\ stage.reports[i].result = ResultFor(RunOutcome(StageTests[i]))

\* A passed check that warns, a check that could not run and a check not
\* yet executed.
C14_Witness ==
    \E i, j, k \in DOMAIN ExecutorTests :
        /\ ExecutorTests[i].report.result = "pass"
        /\ ExecutorTests[i].warn
        /\ ExecutorTests[j].report.result = "exec_fail"
        /\ ~Executed(ExecutorTests[k])
        /\ ExecutorTests[k].report.result = "fail"


Registered(op) ==
    LET calls == SelectSeq(pool.log, LAMBDA c : c.op = op)
    IN  [i \in DOMAIN calls |-> calls[i].name]

IsPrefix(s, t) == Len(s) <= Len(t) /\ \A i \in DOMAIN s : s[i] = t[i]

\* C17: get_all_tests() and get_all_stages() return the names registered
\* to each collection in call order, duplicates included; a collection
\* only ever grows at its end; and a registration to one collection
\* leaves the other unchanged.
C17_PoolAppendOnly ==
    /\ [](/\ get_all_tests(pool) = Registered("register_test")
          /\ get_all_stages(pool) = Registered("register_stage"))
    /\ [][/\ IsPrefix(pool.tests, pool'.tests)
          /\ IsPrefix(pool.stages, pool'.stages)
          /\ (Len(pool'.log) = Len(pool.log) + 1 /\
              pool'.log[Len(pool'.log)].op = "register_test") =>
                 pool'.stages = pool.stages
          /\ (Len(pool'.log) = Len(pool.log) + 1 /\
              pool'.log[Len(pool'.log)].op = "register_stage") =>
                 pool'.tests = pool.tests]_vars

\* The same name registered twice as a test, around a stage registration.
C17_Witness ==
    /\ pool.log = <<[op |-> "register_test", name |-> "A"],
                    [op |-> "register_stage", name |-> "A"],
                    [op |-> "register_test", name |-> "A"]>>
    /\ get_all_tests(pool) = <<"A", "A">>
    /\ get_all_stages(pool) = <<"A">>


\* The exit code a check contributes for what its run() did.
Contribution(t) ==
    IF RunOutcome(t) \in {"false", "raise"} THEN 1
    ELSE IF t.warn THEN 3 ELSE 0

\* C18: once a Group of either flavor has run a check, the check's own
\* report and exit_code hold the outcome the Group reported for it.
C18_CheckRecordUpdated ==
    /\ \A i \in DOMAIN ExecutorTests :
          LET t == ExecutorTests[i] IN
          Executed(t) =>
              /\ t.report.result = ResultFor(RunOutcome(t))
              /\ t.exit_code = Contribution(t)
    /\ \A i \in 1..StageCompleted :
          /\ StageTests[i].report = stage.reports[i]
          /\ StageTests[i].exit_code = Contribution(StageTests[i])

\* The report r carries the message of check t, or none if t has none.
MessageAttached(t, r) ==
    /\ t.message # None => ("message" \in DOMAIN r /\ r.message = t.message)
    /\ t.message = None => "message" \notin DOMAIN r

\* C19: on every path of InfraTest.execute and of the loop of
\* Stage.execute the per-check report has a message entry equal to the
\* check's message if the check carries one, and none if it carries none.
C19_MessageAttachedOnEveryPath ==
    /\ \A i \in DOMAIN ExecutorTests :
          Executed(ExecutorTests[i]) =>
              MessageAttached(ExecutorTests[i], ExecutorTests[i].report)
    /\ \A i \in 1..StageCompleted :
          MessageAttached(StageTests[i], stage.reports[i])

\* A message on the report of a check whose run() raised, of one whose
\* fail() raised, and none on the report of a check without a message.
C19_Witness ==
    \E i, j, k \in DOMAIN ExecutorTests :
        /\ Executed(ExecutorTests[i])
        /\ RunOutcome(ExecutorTests[i]) = "raise"
        /\ "message" \in DOMAIN ExecutorTests[i].report
        /\ FailRaised(ExecutorTests[j])
        /\ "message" \in DOMAIN ExecutorTests[j].report
        /\ Executed(ExecutorTests[k])
        /\ "message" \notin DOMAIN ExecutorTests[k].report

\* What the concrete check t did when it was run.
BehaviourOf(t) ==
    [ret |-> RunOutcome(t), warn |-> t.warn, message |-> t.message,
     fail_raises |-> FailRaised(t)]

\* C20: the report Stage.execute builds for a check equals the report
\* InfraTest.execute leaves on a fresh check that behaves the same, and
\* the exit code Stage.execute holds after that check equals the
\* exit_code InfraTest.execute sets whenever that one is not 0.
C20_StageMatchesRunner ==
    \A i \in 1..StageCompleted :
        LET t == StageTests[i]
            runner == InfraTest_execute(NewInfraTest(t.name), BehaviourOf(t))
        IN  /\ stage.reports[i] = runner.report
            /\ (i = stage.i /\ runner.exit_code # 0) =>
                  stage.exit_code = runner.exit_code

\* The Stage has run a warning check that passed and then a check whose
\* fail() raised and that carries a message.
C20_Witness ==
    /\ StageCompleted >= 2
    /\ RunOutcome(StageTests[1]) = "true"
    /\ StageTests[1].warn
    /\ FailRaised(StageTests[2])
    /\ StageTests[2].message # None

====
